---- MODULE Spec2Model ----
(***************************************************************************)
(* Model of cli/mobycli/exec.go: Exec / RunDocker delegate one invocation  *)
(* to com.docker.cli.  Three tasks run in the host process: the controller *)
(* (main goroutine, Exec + RunDocker), the signal relay goroutine and the  *)
(* output-rewriting goroutine ("engine").  The child process, the signal   *)
(* source and the docker inventory ("world") are the environment.          *)
(* The catalog loaders (getContainers, getImages, getVolumes) are also     *)
(* modelled as functions over a listing output, under LoaderSpec; the      *)
(* lookup of the executable (comDockerCli, findBinary) under ResolveSpec;  *)
(* the rewriting passes of the engine, on the characters of a line, under  *)
(* EnrichSpec; an invocation whose listings of one kind fail, FailSpec.    *)
(***************************************************************************)
EXTENDS Integers, Sequences, FiniteSets, TLC

\* ---------------------------------------------------------------- bounds
MaxLines == 2      \* lines the child may write
PipeCap == 1       \* lines the OS pipe buffers before a write blocks
MaxSignals == 2    \* signals delivered to the host during one invocation
MaxWorld == 1      \* changes of the docker inventory during one invocation
MaxListing == 3    \* lines of a listing output given to a loader
MaxTokens == 2     \* words making up a line given to the rewriting passes
MaxRecords == 1    \* records of each kind in a catalog given to the passes

\* ------------------------------------------------------ program constants
SignalChanCap == 1   \* make(chan os.Signal, 1)
ShortIdLen == 12     \* c.ID[:12]
PanicExitCode == 2   \* exit status of a Go program that dies of a panic
StartFailExitCode == 1 \* os.Exit(1) when the error is not an *exec.ExitError
ResolveFailExitCode == 1 \* os.Exit(1) when com.docker.cli is found nowhere

Running == 0 - 1     \* hostExit while the host process is alive
Empty == 0 - 1       \* a catalog kind holding no record: not loaded yet, or
                     \* the empty collection returned when its listing failed

ArgLists == { <<>>, <<"run">>, <<"ps">> }
ExitCodes == {0, 3}
SigKinds == {"INT", "URG"}      \* URG: the go runtime's preemption signal
LineKinds == {"short", "long"}  \* long: longer than bufio.MaxScanTokenSize

VARIABLES
  args,        \* os.Args[1:]
  ctl_pc,      \* position of the main goroutine in RunDocker / Exec
  retErr,      \* what RunDocker returned: "none" (not yet), "nil", "exit", "start"
  hostExit,    \* exit status of the host process, Running while alive
  child_pc,    \* "none", "running", "exited", "startfail"
  childStatus, \* exit status of the child once exited
  written,     \* number of lines the child has written so far
  pipe,        \* kinds of the lines buffered in the pipe, oldest first
  wOpen,       \* the parent's write end w of the pipe is open
  cmdProcess,  \* cmd.Process != nil
  childStarts, \* number of times the child was started
  relay_pc,    \* "none", "select", "returned"
  relayNotified, \* the relay has received from childExit
  notifications, \* number of sends on childExit that completed
  signals,     \* buffer of the signals channel: ids of delivered signals
  delivered,   \* history: every signal delivered to the host process
  forwarded,   \* history: calls of cmd.Process.Signal made by the relay
  nilDropped,  \* history: ids the relay dropped because cmd.Process == nil
  eng_pc,      \* position of the engine goroutine
  cur,         \* the line the engine is processing: its index, the inventory
               \* version when it was read, the catalog each pass used
  stdout,      \* indices of the lines written to the real standard output
  cons, vols, imgs, \* the catalog: inventory version each kind was listed at
  listings,    \* number of listing invocations made, per kind
  catWriter,   \* task that last assigned a catalog variable
  world,       \* version of the docker inventory
  listFail,    \* kind whose listing invocations fail, "none" when all succeed
  ld_pc, ld_kind, ld_in, ld_out  \* the function applied under LoaderSpec and
               \* ResolveSpec, EnrichSpec: position, name, input, result

vars == << args, ctl_pc, retErr, hostExit, child_pc, childStatus, written,
           pipe, wOpen, cmdProcess, childStarts, relay_pc, relayNotified,
           notifications, signals, delivered, forwarded, nilDropped, eng_pc,
           cur, stdout, cons, vols, imgs, listings, catWriter, world,
           listFail, ld_pc, ld_kind, ld_in, ld_out >>

ctlVars == << ctl_pc, retErr >>
childVars == << child_pc, childStatus, written, pipe, childStarts, cmdProcess >>
relayVars == << relay_pc, relayNotified, notifications, signals, delivered,
                forwarded, nilDropped >>
engVars == << eng_pc, cur, stdout >>
catVars == << cons, vols, imgs, listings, catWriter >>
ldVars == << ld_pc, ld_kind, ld_in, ld_out >>

Alive == hostExit = Running

NoLine == [idx |-> 0, world |-> 0, cons |-> 0, vols |-> 0, imgs |-> 0]

Init ==
  /\ args \in ArgLists
  /\ ctl_pc = "load_cons" /\ retErr = "none" /\ hostExit = Running
  /\ child_pc = "none" /\ childStatus = 0 /\ written = 0 /\ pipe = <<>>
  /\ wOpen = FALSE /\ cmdProcess = FALSE /\ childStarts = 0
  /\ relay_pc = "none" /\ relayNotified = FALSE /\ notifications = 0
  /\ signals = <<>> /\ delivered = <<>> /\ forwarded = <<>> /\ nilDropped = {}
  /\ eng_pc = "none" /\ cur = NoLine /\ stdout = <<>>
  /\ cons = Empty /\ vols = Empty /\ imgs = Empty
  /\ listings = [k \in {"cons", "vols", "imgs"} |-> 0]
  /\ catWriter = "nobody"
  /\ world = 0
  /\ listFail = "none"
  /\ ld_pc = "off" /\ ld_kind = "none" /\ ld_in = <<>> /\ ld_out = <<>>

\* ------------------------------------------------------------ controller
\* Result of one listing of kind k: `out, err := cmd.Output()` gives the
\* inventory as it is at the time of the invocation, or fails, and then the
\* loader returns the empty collection (`if err != nil { return []T{} }`).
ListResults(k) == IF listFail = k THEN {Empty} ELSE {world}

\* CtlLoadCons where a failed listing is returned as the error of RunDocker.
CtlLoadCons_propagates ==
  /\ Alive /\ ctl_pc = "load_cons"
  /\ \E r \in ListResults("cons") : cons' = r
  /\ listings' = [listings EXCEPT !["cons"] = @ + 1]
  /\ catWriter' = "controller"
  /\ IF listFail = "cons"
       THEN ctl_pc' = "returned" /\ retErr' = "start"
       ELSE ctl_pc' = "load_vols" /\ retErr' = retErr
  /\ UNCHANGED << args, hostExit, childVars, wOpen, relayVars, engVars,
                  vols, imgs, world, listFail, ldVars >>

\* RunDocker: cons := getContainers()
CtlLoadCons ==
  /\ Alive /\ ctl_pc = "load_cons"
  /\ \E r \in ListResults("cons") : cons' = r
  /\ listings' = [listings EXCEPT !["cons"] = @ + 1]
  /\ catWriter' = "controller"
  /\ ctl_pc' = "load_vols"
  /\ UNCHANGED << args, retErr, hostExit, childVars, wOpen, relayVars, engVars,
                  vols, imgs, world, listFail, ldVars >>

\* RunDocker: vols := getVolumes()
CtlLoadVols ==
  /\ Alive /\ ctl_pc = "load_vols"
  /\ \E r \in ListResults("vols") : vols' = r
  /\ listings' = [listings EXCEPT !["vols"] = @ + 1]
  /\ catWriter' = "controller"
  /\ ctl_pc' = "load_imgs"
  /\ UNCHANGED << args, retErr, hostExit, childVars, wOpen, relayVars, engVars,
                  cons, imgs, world, listFail, ldVars >>

\* RunDocker: imgs := getImages()
CtlLoadImgs ==
  /\ Alive /\ ctl_pc = "load_imgs"
  /\ \E r \in ListResults("imgs") : imgs' = r
  /\ listings' = [listings EXCEPT !["imgs"] = @ + 1]
  /\ catWriter' = "controller"
  /\ ctl_pc' = "start_relay"
  /\ UNCHANGED << args, retErr, hostExit, childVars, wOpen, relayVars, engVars,
                  cons, vols, world, listFail, ldVars >>

\* CtlStartRelay where the child is started right after the relay, before
\* the pipe and the engine goroutine exist.
CtlStartRelay_thenChild ==
  /\ Alive /\ ctl_pc = "start_relay"
  /\ relay_pc' = "select"
  /\ ctl_pc' = "start_child"
  /\ UNCHANGED << args, retErr, hostExit, childVars, wOpen, relayNotified,
                  notifications, signals, delivered, forwarded, nilDropped,
                  engVars, catVars, world, listFail, ldVars >>

\* RunDocker: signals := make(chan os.Signal, 1); signal.Notify(signals);
\* go func() { for { select ... } }()
CtlStartRelay ==
  /\ Alive /\ ctl_pc = "start_relay"
  /\ relay_pc' = "select"
  /\ ctl_pc' = "start_engine"
  /\ UNCHANGED << args, retErr, hostExit, childVars, wOpen, relayNotified,
                  notifications, signals, delivered, forwarded, nilDropped,
                  engVars, catVars, world, listFail, ldVars >>

\* RunDocker: r, w, _ := os.Pipe(); cmd.Stdout = w; done := make(chan);
\* go func() { scanner := bufio.NewScanner(r) ... }()
CtlStartEngine ==
  /\ Alive /\ ctl_pc = "start_engine"
  /\ wOpen' = TRUE
  /\ eng_pc' = "scan"
  /\ ctl_pc' = "start_child"
  /\ UNCHANGED << args, retErr, hostExit, childVars, relayVars, cur, stdout,
                  catVars, world, listFail, ldVars >>

\* cmd.Run() -> cmd.Start(): the child is created and cmd.Process is set, or
\* the start fails, cmd.Process stays nil and RunDocker returns the error.
CtlStartChild ==
  /\ Alive /\ ctl_pc = "start_child"
  /\ childStarts' = childStarts + 1
  /\ \/ /\ child_pc' = "running"
        /\ cmdProcess' = TRUE
        /\ ctl_pc' = "wait"
        /\ retErr' = retErr
     \/ /\ child_pc' = "startfail"
        /\ cmdProcess' = cmdProcess
        /\ ctl_pc' = "returned"
        /\ retErr' = "start"
  /\ UNCHANGED << args, hostExit, childStatus, written, pipe, wOpen,
                  relayVars, engVars, catVars, world, listFail, ldVars >>

\* cmd.Run() -> cmd.Wait() returns: `if err := cmd.Run(); err != nil
\* { return err }`, otherwise execution goes on to w.Close().
CtlWait ==
  /\ Alive /\ ctl_pc = "wait" /\ child_pc = "exited"
  /\ IF childStatus # 0
       THEN ctl_pc' = "returned" /\ retErr' = "exit"
       ELSE ctl_pc' = "close_w" /\ retErr' = retErr
  /\ UNCHANGED << args, hostExit, childVars, wOpen, relayVars, engVars, catVars,
                  world, listFail, ldVars >>

\* RunDocker: w.Close()
CtlCloseW ==
  /\ Alive /\ ctl_pc = "close_w"
  /\ wOpen' = FALSE
  /\ ctl_pc' = "wait_done"
  /\ UNCHANGED << args, retErr, hostExit, childVars, relayVars, engVars, catVars,
                  world, listFail, ldVars >>

\* The rendezvous on the unbuffered channel done: the engine's
\* `done <- struct{}{}` meets RunDocker's `<-done`; RunDocker returns nil.
DoneHandoff ==
  /\ Alive /\ ctl_pc = "wait_done" /\ eng_pc = "send_done"
  /\ eng_pc' = "finished"
  /\ ctl_pc' = "returned" /\ retErr' = "nil"
  /\ UNCHANGED << args, hostExit, childVars, wOpen, relayVars, cur, stdout,
                  catVars, world, listFail, ldVars >>

\* NotifyRelay with `case <-childExit: continue`: the relay keeps looping.
NotifyRelay_keepsLooping ==
  /\ Alive /\ ctl_pc = "returned" /\ relay_pc = "select"
  /\ relay_pc' = "select"
  /\ relayNotified' = TRUE
  /\ notifications' = notifications + 1
  /\ ctl_pc' = "exec_exit"
  /\ UNCHANGED << args, retErr, hostExit, childVars, wOpen, signals, delivered,
                  forwarded, nilDropped, engVars, catVars, world, listFail, ldVars >>

\* The rendezvous on the unbuffered channel childExit: Exec's
\* `childExit <- true` meets the relay's `case <-childExit: return`.
NotifyRelay ==
  /\ Alive /\ ctl_pc = "returned" /\ relay_pc = "select"
  /\ relay_pc' = "returned"
  /\ relayNotified' = TRUE
  /\ notifications' = notifications + 1
  /\ ctl_pc' = "exec_exit"
  /\ UNCHANGED << args, retErr, hostExit, childVars, wOpen, signals, delivered,
                  forwarded, nilDropped, engVars, catVars, world, listFail, ldVars >>

\* Exec: the exit status chosen from err.
ExecExitCode ==
  IF retErr = "nil" THEN 0
  ELSE IF retErr = "exit" THEN childStatus
  ELSE StartFailExitCode

\* Exec: os.Exit(exitCode) / os.Exit(1) / os.Exit(0)
ExecExit ==
  /\ Alive /\ ctl_pc = "exec_exit"
  /\ hostExit' = ExecExitCode
  /\ ctl_pc' = "exited"
  /\ UNCHANGED << args, retErr, childVars, wOpen, relayVars, engVars, catVars,
                  world, listFail, ldVars >>

\* ------------------------------------------------------------ environment
ChildExists == child_pc \in {"running", "exited"}

\* A signal reaches the host process.  signal.Notify does a non-blocking
\* send on the channel: the signal is dropped when the buffer is full.
Deliver(k) ==
  /\ Alive /\ relay_pc # "none"
  /\ Len(delivered) < MaxSignals
  /\ delivered' = Append(delivered,
        [kind |-> k, childExisted |-> ChildExists, beforeNote |-> ~relayNotified])
  /\ signals' = IF Len(signals) < SignalChanCap
                  THEN Append(signals, Len(delivered) + 1)
                  ELSE signals
  /\ UNCHANGED << args, ctlVars, hostExit, childVars, wOpen, relay_pc,
                  relayNotified, notifications, forwarded, nilDropped, engVars,
                  catVars, world, listFail, ldVars >>

\* The running child changes the docker inventory (`docker run` creates a
\* container, a volume, pulls an image).
WorldChange ==
  /\ Alive /\ world < MaxWorld /\ child_pc = "running"
  /\ world' = world + 1
  /\ UNCHANGED << args, ctlVars, hostExit, childVars, wOpen, relayVars, engVars,
                  catVars, listFail, ldVars >>

\* The child writes one line to its standard output (the pipe); the write
\* blocks while the pipe is full.
ChildWrite(k) ==
  /\ Alive /\ child_pc = "running"
  /\ written < MaxLines
  /\ Len(pipe) < PipeCap
  /\ written' = written + 1
  /\ pipe' = Append(pipe, k)
  /\ UNCHANGED << args, ctlVars, hostExit, child_pc, childStatus, childStarts,
                  cmdProcess, wOpen, relayVars, engVars, catVars, world, listFail, ldVars >>

\* The child exits with status st; its copy of the write end is closed.
ChildExit(st) ==
  /\ Alive /\ child_pc = "running"
  /\ child_pc' = "exited"
  /\ childStatus' = st
  /\ UNCHANGED << args, ctlVars, hostExit, written, pipe, childStarts,
                  cmdProcess, wOpen, relayVars, engVars, catVars, world, listFail, ldVars >>

\* ------------------------------------------------------------------ relay
\* RelaySignal without the `cmd.Process == nil` test.
RelaySignal_noNilCheck ==
  /\ Alive /\ relay_pc = "select" /\ signals # <<>>
  /\ LET id == Head(signals)
         k == delivered[id].kind
     IN /\ signals' = Tail(signals)
        /\ IF k = "URG"
             THEN UNCHANGED << nilDropped, forwarded >>
             ELSE /\ forwarded' = Append(forwarded,
                        [id |-> id, kind |-> k, child |-> ChildExists])
                  /\ nilDropped' = nilDropped
  /\ UNCHANGED << args, ctlVars, hostExit, childVars, wOpen, relay_pc,
                  relayNotified, notifications, delivered, engVars, catVars,
                  world, listFail, ldVars >>

\* RelaySignal where the relay returns when it meets a runtime signal.
RelaySignal_returnsOnURG ==
  /\ Alive /\ relay_pc = "select" /\ signals # <<>>
  /\ LET id == Head(signals)
         k == delivered[id].kind
     IN /\ signals' = Tail(signals)
        /\ relay_pc' = IF cmdProcess /\ k = "URG" THEN "returned" ELSE relay_pc
        /\ IF ~cmdProcess
             THEN /\ nilDropped' = nilDropped \cup {id}
                  /\ forwarded' = forwarded
             ELSE IF k = "URG"
             THEN UNCHANGED << nilDropped, forwarded >>
             ELSE /\ forwarded' = Append(forwarded,
                        [id |-> id, kind |-> k, child |-> ChildExists])
                  /\ nilDropped' = nilDropped
  /\ UNCHANGED << args, ctlVars, hostExit, childVars, wOpen,
                  relayNotified, notifications, delivered, engVars, catVars,
                  world, listFail, ldVars >>

\* select { case sig := <-signals: ... } : one iteration of the relay loop
\* that takes a signal from the channel.
RelaySignal ==
  /\ Alive /\ relay_pc = "select" /\ signals # <<>>
  /\ LET id == Head(signals)
         k == delivered[id].kind
     IN /\ signals' = Tail(signals)
        /\ IF ~cmdProcess
             THEN \* if cmd.Process == nil { continue }
                  /\ nilDropped' = nilDropped \cup {id}
                  /\ forwarded' = forwarded
             ELSE IF k = "URG"
             THEN \* if isRuntimeSig(sig) { continue }
                  UNCHANGED << nilDropped, forwarded >>
             ELSE \* _ = cmd.Process.Signal(sig)
                  /\ forwarded' = Append(forwarded,
                        [id |-> id, kind |-> k, child |-> ChildExists])
                  /\ nilDropped' = nilDropped
  /\ UNCHANGED << args, ctlVars, hostExit, childVars, wOpen, relay_pc,
                  relayNotified, notifications, delivered, engVars, catVars,
                  world, listFail, ldVars >>

\* ----------------------------------------------------------------- engine
\* EngScan that refreshes the catalog whatever the first argument is.
EngScan_alwaysRefresh ==
  /\ Alive /\ eng_pc = "scan" /\ pipe # <<>>
  /\ pipe' = Tail(pipe)
  /\ IF Head(pipe) = "long"
       THEN /\ eng_pc' = "send_done"
            /\ UNCHANGED << cur, hostExit >>
       ELSE IF Len(args) = 0
       THEN /\ hostExit' = PanicExitCode
            /\ eng_pc' = "panicked"
            /\ cur' = cur
       ELSE /\ hostExit' = hostExit
            /\ cur' = [NoLine EXCEPT !.idx = written - Len(pipe) + 1,
                                     !.world = world]
            /\ eng_pc' = "refresh_cons"
  /\ UNCHANGED << args, ctlVars, child_pc, childStatus, written,
                  childStarts, cmdProcess, wOpen, relayVars, stdout, catVars,
                  world, listFail, ldVars >>

\* for scanner.Scan() { if args[0] == "run" { ... } : Scan returns true with
\* the next line, or false with bufio.ErrTooLong when the line exceeds the
\* scanner's buffer; then args[0] is read, which panics when args is empty,
\* and the panic of a goroutine ends the host process.
EngScan ==
  /\ Alive /\ eng_pc = "scan" /\ pipe # <<>>
  /\ pipe' = Tail(pipe)
  /\ IF Head(pipe) = "long"
       THEN /\ eng_pc' = "send_done"
            /\ UNCHANGED << cur, hostExit >>
       ELSE IF Len(args) = 0
       THEN /\ hostExit' = PanicExitCode
            /\ eng_pc' = "panicked"
            /\ cur' = cur
       ELSE /\ hostExit' = hostExit
            /\ cur' = [NoLine EXCEPT !.idx = written - Len(pipe) + 1,
                                     !.world = world]
            /\ eng_pc' = IF args[1] = "run" THEN "refresh_cons" ELSE "rewrite"
  /\ UNCHANGED << args, ctlVars, child_pc, childStatus, written,
                  childStarts, cmdProcess, wOpen, relayVars, stdout, catVars,
                  world, listFail, ldVars >>

\* scanner.Scan() returns false at end-of-stream: the pipe is empty and
\* every write end (the parent's w and the child's copy) is closed.
EngEOF ==
  /\ Alive /\ eng_pc = "scan" /\ pipe = <<>>
  /\ ~wOpen /\ child_pc # "running"
  /\ eng_pc' = "send_done"
  /\ UNCHANGED << args, ctlVars, hostExit, childVars, wOpen, relayVars, cur,
                  stdout, catVars, world, listFail, ldVars >>

\* cons = getContainers()
EngRefreshCons ==
  /\ Alive /\ eng_pc = "refresh_cons"
  /\ \E r \in ListResults("cons") : cons' = r
  /\ listings' = [listings EXCEPT !["cons"] = @ + 1]
  /\ catWriter' = "engine"
  /\ eng_pc' = "refresh_vols"
  /\ UNCHANGED << args, ctlVars, hostExit, childVars, wOpen, relayVars, cur,
                  stdout, vols, imgs, world, listFail, ldVars >>

\* vols = getVolumes()
EngRefreshVols ==
  /\ Alive /\ eng_pc = "refresh_vols"
  /\ \E r \in ListResults("vols") : vols' = r
  /\ listings' = [listings EXCEPT !["vols"] = @ + 1]
  /\ catWriter' = "engine"
  /\ eng_pc' = "refresh_imgs"
  /\ UNCHANGED << args, ctlVars, hostExit, childVars, wOpen, relayVars, cur,
                  stdout, cons, imgs, world, listFail, ldVars >>

\* imgs = getImages()
EngRefreshImgs ==
  /\ Alive /\ eng_pc = "refresh_imgs"
  /\ \E r \in ListResults("imgs") : imgs' = r
  /\ listings' = [listings EXCEPT !["imgs"] = @ + 1]
  /\ catWriter' = "engine"
  /\ eng_pc' = "rewrite"
  /\ UNCHANGED << args, ctlVars, hostExit, childVars, wOpen, relayVars, cur,
                  stdout, cons, vols, world, listFail, ldVars >>

\* EngRewrite that reloads the images between two rewriting passes.
EngRewrite_reloads ==
  /\ Alive /\ eng_pc = "rewrite"
  /\ cur' = [cur EXCEPT !.cons = cons, !.vols = vols, !.imgs = world]
  /\ imgs' = world
  /\ listings' = [listings EXCEPT !["imgs"] = @ + 1]
  /\ catWriter' = "engine"
  /\ eng_pc' = "print"
  /\ UNCHANGED << args, ctlVars, hostExit, childVars, wOpen, relayVars, stdout,
                  cons, vols, world, listFail, ldVars >>

\* line := scanner.Text(); for _, c := range cons { ... }; for _, v := range
\* vols { ... }; for _, img := range imgs { ... } : the three rewriting
\* passes over the line, each with the catalog of its kind.
EngRewrite ==
  /\ Alive /\ eng_pc = "rewrite"
  /\ cur' = [cur EXCEPT !.cons = cons, !.vols = vols, !.imgs = imgs]
  /\ eng_pc' = "print"
  /\ UNCHANGED << args, ctlVars, hostExit, childVars, wOpen, relayVars, stdout,
                  catVars, world, listFail, ldVars >>

\* EngPrint that writes the line twice.
EngPrint_twice ==
  /\ Alive /\ eng_pc = "print"
  /\ stdout' = Append(Append(stdout, cur.idx), cur.idx)
  /\ cur' = NoLine
  /\ eng_pc' = "scan"
  /\ UNCHANGED << args, ctlVars, hostExit, childVars, wOpen, relayVars, catVars,
                  world, listFail, ldVars >>

\* fmt.Fprintln(os.Stdout, line)
EngPrint ==
  /\ Alive /\ eng_pc = "print"
  /\ stdout' = Append(stdout, cur.idx)
  /\ cur' = NoLine
  /\ eng_pc' = "scan"
  /\ UNCHANGED << args, ctlVars, hostExit, childVars, wOpen, relayVars, catVars,
                  world, listFail, ldVars >>

\* ---------------------------------------------------------- specification
Next ==
  \/ CtlLoadCons \/ CtlLoadVols \/ CtlLoadImgs
  \/ CtlStartRelay \/ CtlStartEngine \/ CtlStartChild
  \/ CtlWait \/ CtlCloseW \/ DoneHandoff \/ NotifyRelay \/ ExecExit
  \/ \E k \in SigKinds : Deliver(k)
  \/ WorldChange
  \/ \E k \in LineKinds : ChildWrite(k)
  \/ \E st \in ExitCodes : ChildExit(st)
  \/ RelaySignal
  \/ EngScan \/ EngEOF
  \/ EngRefreshCons \/ EngRefreshVols \/ EngRefreshImgs
  \/ EngRewrite \/ EngPrint

Spec == Init /\ [][Next]_vars

\* The steps of one invocation while the docker inventory stays as it is
\* (the relay and the controller never look at it).
StaticNext ==
  \/ CtlLoadCons \/ CtlLoadVols \/ CtlLoadImgs
  \/ CtlStartRelay \/ CtlStartEngine \/ CtlStartChild
  \/ CtlWait \/ CtlCloseW \/ DoneHandoff \/ NotifyRelay \/ ExecExit
  \/ \E k \in SigKinds : Deliver(k)
  \/ \E k \in LineKinds : ChildWrite(k)
  \/ \E st \in ExitCodes : ChildExit(st)
  \/ RelaySignal
  \/ EngScan \/ EngEOF
  \/ EngRefreshCons \/ EngRefreshVols \/ EngRefreshImgs
  \/ EngRewrite \/ EngPrint

\* The relay's select picks among its ready cases at random, so a send on
\* childExit that stays possible is eventually taken: weak fairness of the
\* rendezvous.  Nothing is assumed of the child or of the signal source.
FairSpec == Init /\ [][StaticNext]_vars /\ WF_vars(NotifyRelay)

\* One invocation during which every listing of one kind fails (the daemon
\* refuses it, or com.docker.cli cannot list that kind).
FailInit ==
  /\ args \in ArgLists
  /\ ctl_pc = "load_cons" /\ retErr = "none" /\ hostExit = Running
  /\ child_pc = "none" /\ childStatus = 0 /\ written = 0 /\ pipe = <<>>
  /\ wOpen = FALSE /\ cmdProcess = FALSE /\ childStarts = 0
  /\ relay_pc = "none" /\ relayNotified = FALSE /\ notifications = 0
  /\ signals = <<>> /\ delivered = <<>> /\ forwarded = <<>> /\ nilDropped = {}
  /\ eng_pc = "none" /\ cur = NoLine /\ stdout = <<>>
  /\ cons = Empty /\ vols = Empty /\ imgs = Empty
  /\ listings = [k \in {"cons", "vols", "imgs"} |-> 0]
  /\ catWriter = "nobody"
  /\ world = 0
  /\ listFail \in {"cons", "vols", "imgs"}
  /\ ld_pc = "off" /\ ld_kind = "none" /\ ld_in = <<>> /\ ld_out = <<>>

FailSpec == FailInit /\ [][StaticNext]_vars

\* ---------------------------------------------------------------- loaders
\* Strings are sequences of one-character strings.
Rep(c, n) == [i \in 1..n |-> c]
Sha256Prefix == << "s", "h", "a", "2", "5", "6", ":" >>

\* One line of a listing output: a JSON object carrying the fields the
\* format string prints, text that is not JSON, or a blank line.
BadLine == [t |-> "bad", ID |-> <<>>, Name |-> <<>>]
BlankLine == [t |-> "blank", ID |-> <<>>, Name |-> <<>>]
ObjLine(id, name) == [t |-> "obj", ID |-> id, Name |-> name]

\* strings.TrimPrefix(s, prefix)
TrimPrefix(s, prefix) ==
  IF Len(s) >= Len(prefix) /\ SubSeq(s, 1, Len(prefix)) = prefix
    THEN SubSeq(s, Len(prefix) + 1, Len(s))
    ELSE s

\* strings.TrimSpace applied to the whole output: leading and trailing
\* blank lines disappear.
RECURSIVE TrimLeft(_)
TrimLeft(ls) ==
  IF ls # <<>> /\ Head(ls).t = "blank" THEN TrimLeft(Tail(ls)) ELSE ls

RECURSIVE TrimRight(_)
TrimRight(ls) ==
  IF ls # <<>> /\ ls[Len(ls)].t = "blank"
    THEN TrimRight(SubSeq(ls, 1, Len(ls) - 1))
    ELSE ls

\* strings.Split(strings.TrimSpace(string(out)), "\n"): never empty, the
\* empty string splits into one empty line.
SplitLines(out) ==
  LET ls == TrimRight(TrimLeft(out))
  IN IF ls = <<>> THEN << BlankLine >> ELSE ls

\* json.Unmarshal([]byte(line), &rec) returns an error unless the line is JSON.
UnmarshalFails(line) == line.t # "obj"

LoadResult(p, rs) == [panic |-> p, recs |-> rs]

\* getContainers: the loop over the lines; c.ID[:12] panics (slice bounds
\* out of range) when the identifier is shorter than 12 characters.
RECURSIVE ContainersLoop(_, _)
ContainersLoop(ls, cs) ==
  IF ls = <<>> THEN LoadResult(FALSE, cs)
  ELSE IF UnmarshalFails(Head(ls)) THEN ContainersLoop(Tail(ls), cs)
  ELSE IF Len(Head(ls).ID) < ShortIdLen THEN LoadResult(TRUE, cs)
  ELSE ContainersLoop(Tail(ls),
         Append(cs, [ShortId |-> SubSeq(Head(ls).ID, 1, ShortIdLen),
                     ID |-> Head(ls).ID, Names |-> Head(ls).Name]))

\* getContainers(): in.err is the error of cmd.Output()
getContainers(in) ==
  IF in.err THEN LoadResult(FALSE, <<>>)
  ELSE ContainersLoop(SplitLines(in.lines), <<>>)

\* getImages: the loop; strings.TrimPrefix(img.ID, "sha256:")[:12] panics
\* when what is left of the identifier is shorter than 12 characters.
RECURSIVE ImagesLoop(_, _)
ImagesLoop(ls, is) ==
  IF ls = <<>> THEN LoadResult(FALSE, is)
  ELSE IF UnmarshalFails(Head(ls)) THEN ImagesLoop(Tail(ls), is)
  ELSE IF Len(TrimPrefix(Head(ls).ID, Sha256Prefix)) < ShortIdLen
    THEN LoadResult(TRUE, is)
  ELSE ImagesLoop(Tail(ls),
         Append(is, [ShortId |-> SubSeq(TrimPrefix(Head(ls).ID, Sha256Prefix),
                                         1, ShortIdLen),
                     ID |-> Head(ls).ID]))

\* getImages()
getImages(in) ==
  IF in.err THEN LoadResult(FALSE, <<>>)
  ELSE ImagesLoop(SplitLines(in.lines), <<>>)

\* getVolumes: the loop; no identifier is truncated.
RECURSIVE VolumesLoop(_, _)
VolumesLoop(ls, vs) ==
  IF ls = <<>> THEN LoadResult(FALSE, vs)
  ELSE IF UnmarshalFails(Head(ls)) THEN VolumesLoop(Tail(ls), vs)
  ELSE VolumesLoop(Tail(ls), Append(vs, [Name |-> Head(ls).Name]))

\* getVolumes()
getVolumes(in) ==
  IF in.err THEN LoadResult(FALSE, <<>>)
  ELSE VolumesLoop(SplitLines(in.lines), <<>>)

\* Inputs of the loaders: listing outputs of at most MaxListing lines.
ShortIdA == << "a", "b", "c" >>
ShortIdD == << "d", "e", "f" >>
ContainerIds == { ShortIdA, ShortIdD, Rep("1", ShortIdLen), Rep("2", ShortIdLen + 1) }
ImageIds == { ShortIdA, Sha256Prefix \o Rep("3", 5),
              Sha256Prefix \o Rep("4", ShortIdLen), Rep("5", ShortIdLen + 1) }
VolumeNames == { << "v" >>, << "d", "b" >> }

LinesOf(kind) ==
  {BadLine, BlankLine} \cup
  (IF kind = "containers" THEN {ObjLine(id, << "n" >>) : id \in ContainerIds}
   ELSE IF kind = "images" THEN {ObjLine(id, <<>>) : id \in ImageIds}
   ELSE {ObjLine(<<>>, n) : n \in VolumeNames})

SeqsUpTo(S, n) == UNION {[1..m -> S] : m \in 0..n}

LoaderInit ==
  /\ args = <<>>
  /\ ctl_pc = "load_cons" /\ retErr = "none" /\ hostExit = Running
  /\ child_pc = "none" /\ childStatus = 0 /\ written = 0 /\ pipe = <<>>
  /\ wOpen = FALSE /\ cmdProcess = FALSE /\ childStarts = 0
  /\ relay_pc = "none" /\ relayNotified = FALSE /\ notifications = 0
  /\ signals = <<>> /\ delivered = <<>> /\ forwarded = <<>> /\ nilDropped = {}
  /\ eng_pc = "none" /\ cur = NoLine /\ stdout = <<>>
  /\ cons = Empty /\ vols = Empty /\ imgs = Empty
  /\ listings = [k \in {"cons", "vols", "imgs"} |-> 0]
  /\ catWriter = "nobody"
  /\ world = 0
  /\ listFail = "none"
  /\ ld_pc = "call"
  /\ ld_kind \in {"containers", "images", "volumes"}
  /\ \E e \in BOOLEAN :
       \E ls \in SeqsUpTo(LinesOf(ld_kind), MaxListing) :
         ld_in = [err |-> e, lines |-> ls]
  /\ ld_out = <<>>

LoaderFrame ==
  UNCHANGED << args, ctlVars, hostExit, childVars, wOpen, relayVars, engVars,
               catVars, world, listFail, ld_kind, ld_in >>

CallGetContainers ==
  /\ ld_pc = "call" /\ ld_kind = "containers"
  /\ ld_out' = getContainers(ld_in)
  /\ ld_pc' = "done"
  /\ LoaderFrame

CallGetImages ==
  /\ ld_pc = "call" /\ ld_kind = "images"
  /\ ld_out' = getImages(ld_in)
  /\ ld_pc' = "done"
  /\ LoaderFrame

CallGetVolumes ==
  /\ ld_pc = "call" /\ ld_kind = "volumes"
  /\ ld_out' = getVolumes(ld_in)
  /\ ld_pc' = "done"
  /\ LoaderFrame

LoaderNext == CallGetContainers \/ CallGetImages \/ CallGetVolumes

LoaderSpec == LoaderInit /\ [][LoaderNext]_vars

\* C10 -- best-effort catalog parsing: for every listing output, the loader
\* (getContainers or getImages) never aborts and returns exactly the records
\* of the lines that are JSON objects, in order, whatever the length of
\* their identifiers.
WellFormedIds(ls) ==
  LET objs == SelectSeq(ls, LAMBDA l : l.t = "obj")
  IN [i \in 1..Len(objs) |-> objs[i].ID]

C10_BestEffortParsing ==
  (ld_pc = "done" /\ ld_kind \in {"containers", "images"} /\ ~ld_in.err) =>
    /\ ~ld_out.panic
    /\ [i \in 1..Len(ld_out.recs) |-> ld_out.recs[i].ID] = WellFormedIds(ld_in.lines)

\* ------------------------------------------------------ rewriting passes
\* The body of the engine's loop for one line, on the characters of the line.
\* "ESC" and "BEL" stand for the characters U+001B and U+0007.
OSC == << "ESC", "]" >>
BEL == << "BEL" >>
SEP == << ";" >>
DashboardURL == << "d", "o", "c", "k", "e", "r", "-", "d", "e", "s", "k", "t", "o", "p", ":", "/", "/", "d", "a", "s", "h", "b", "o", "a", "r", "d", "/" >>
IdQuery == << "?", "i", "d", "=" >>
ContainersPrefix == << "c", "o", "n", "t", "a", "i", "n", "e", "r", "s" >>
VolumesPrefix == << "v", "o", "l", "u", "m", "e", "s" >>
ImagesPrefix == << "i", "m", "a", "g", "e", "s" >>
LatestTag == << "l", "a", "t", "e", "s", "t" >>
GroupRef == << "$", "1" >>

Min(S) == CHOOSE x \in S : \A y \in S : x <= y

\* enhance with the identifier as a path segment after the kind.
enhance_idAsPathSegment(prefix, str, id) ==
  OSC \o << "8" >> \o SEP \o SEP
      \o (DashboardURL \o prefix \o << "/" >> \o id)
      \o BEL \o str \o OSC \o << "8" >> \o SEP \o SEP \o BEL

\* enhance(prefix, str, id): deeplink := "docker-desktop://dashboard/" +
\* prefix + "?id=" + id; strings.Join of OSC, "8", SEP, SEP, deeplink, BEL,
\* str, OSC, "8", SEP, SEP, BEL.
enhance(prefix, str, id) ==
  OSC \o << "8" >> \o SEP \o SEP
      \o (DashboardURL \o prefix \o IdQuery \o id)
      \o BEL \o str \o OSC \o << "8" >> \o SEP \o SEP \o BEL

\* strings.Contains(s, sub)
Contains(s, sub) ==
  \E p \in 1..(Len(s) - Len(sub) + 1) : SubSeq(s, p, p + Len(sub) - 1) = sub

\* The characters of the class [a-z0-9].
LowerAlnum ==
  { "a", "b", "c", "d", "e", "f", "g", "h", "i", "j", "k", "l", "m", "n", "o",
    "p", "q", "r", "s", "t", "u", "v", "w", "x", "y", "z",
    "0", "1", "2", "3", "4", "5", "6", "7", "8", "9" }

\* regexp.MustCompile("(" + c.ShortId + "[a-z0-9]*" + ")") and
\* regexp.MustCompile("(" + name + ")"): the text is compiled as a regular
\* expression, in which "." stands for any character and the characters
\* docker allows in names (letters, digits, "_", "-", "/", ":") for
\* themselves.  The text is not empty.
IdRegex(shortId) == [atoms |-> shortId, star |-> TRUE]
NameRegex(name) == [atoms |-> name, star |-> FALSE]

\* Length of the run of [a-z0-9] characters of s that starts at p.
AlnumRun(s, p) ==
  LET stops == {q \in p..Len(s) : s[q] \notin LowerAlnum}
  IN IF stops = {} THEN Len(s) - p + 1 ELSE Min(stops) - p

\* Length of the match of re in s that starts at p, 0 when there is none:
\* the atoms one by one, then the greedy [a-z0-9]*.
MatchLen(re, s, p) ==
  IF /\ p + Len(re.atoms) - 1 <= Len(s)
     /\ \A i \in 1..Len(re.atoms) :
           re.atoms[i] = "." \/ re.atoms[i] = s[p + i - 1]
    THEN Len(re.atoms) + (IF re.star THEN AlnumRun(s, p + Len(re.atoms)) ELSE 0)
    ELSE 0

\* Start of the leftmost match of re in s at or after p, 0 when none.
NextMatch(re, s, p) ==
  LET starts == {q \in p..Len(s) : MatchLen(re, s, q) > 0}
  IN IF starts = {} THEN 0 ELSE Min(starts)

\* Regexp.Expand for a template whose only reference is $1: every "$1" is
\* replaced by the text of the first group, which is the whole match.
RECURSIVE Expand(_, _)
Expand(template, match) ==
  LET refs == {i \in 1..(Len(template) - 1) :
                 template[i] = GroupRef[1] /\ template[i + 1] = GroupRef[2]}
  IN IF refs = {} THEN template
     ELSE SubSeq(template, 1, Min(refs) - 1) \o match
            \o Expand(SubSeq(template, Min(refs) + 2, Len(template)), match)

\* cRegex.ReplaceAllString(line, template): the matches are found from left
\* to right in the line as it was, without overlap, and each is replaced
\* by the expanded template.
RECURSIVE ReplaceFrom(_, _, _, _)
ReplaceFrom(re, s, p, template) ==
  LET q == NextMatch(re, s, p)
  IN IF q = 0 THEN SubSeq(s, p, Len(s))
     ELSE SubSeq(s, p, q - 1)
            \o Expand(template, SubSeq(s, q, q + MatchLen(re, s, q) - 1))
            \o ReplaceFrom(re, s, q + MatchLen(re, s, q), template)

ReplaceAllString(re, s, template) == ReplaceFrom(re, s, 1, template)

\* The first decoration a pass made: its kind, the text it wraps, the
\* identifier, the characters inserted.  NoDeco when the pass matched nothing.
NoDeco == [prefix |-> <<>>, str |-> <<>>, id |-> <<>>, text |-> <<>>]

FirstDeco(re, s, prefix, id) ==
  LET q == NextMatch(re, s, 1)
  IN IF q = 0 THEN NoDeco
     ELSE [prefix |-> prefix, str |-> SubSeq(s, q, q + MatchLen(re, s, q) - 1),
           id |-> id,
           text |-> Expand(enhance(prefix, GroupRef, id),
                           SubSeq(s, q, q + MatchLen(re, s, q) - 1))]

\* line = cRegex.ReplaceAllString(line, enhance(prefix, "$1", id))
Pass(re, out, prefix, id) ==
  [out EXCEPT !.line = ReplaceAllString(re, out.line, enhance(prefix, GroupRef, id)),
              !.deco = FirstDeco(re, out.line, prefix, id)]

\* Records as the loaders build them.
ConRec(id, names) ==
  [ShortId |-> SubSeq(id, 1, ShortIdLen), ID |-> id, Names |-> names]
ImgRec(id, tag, repo) ==
  [ShortId |-> SubSeq(TrimPrefix(id, Sha256Prefix), 1, ShortIdLen), ID |-> id,
   Tag |-> tag, Respository |-> repo]
VolRec(name) == [Name |-> name]

\* Inputs: catalogs of at most MaxRecords different records of each kind
\* and lines of at most MaxTokens words.
ConWeb == ConRec(Rep("a", ShortIdLen) \o << "1" >>, << "w", "e", "b" >>)
ConDotted == ConRec(Rep("b", ShortIdLen) \o << "2" >>, << "a", ".", "b" >>)
VolData == VolRec(<< "d", "a", "t", "a" >>)
ImgMyapp == ImgRec(Sha256Prefix \o Rep("c", ShortIdLen) \o << "3" >>,
                   << "v", "1" >>, << "m", "y", "a", "p", "p" >>)
ImgDocker == ImgRec(Sha256Prefix \o Rep("d", ShortIdLen) \o << "4" >>,
                    << "8" >>, << "d", "o", "c", "k", "e", "r" >>)

Tokens ==
  { ConWeb.ShortId, << "1" >>, << " " >>, ConWeb.Names, << "a", "x", "b" >>,
    VolData.Name, ImgMyapp.Respository, ImgMyapp.Tag, ImgDocker.Respository }

RECURSIVE Concat(_)
Concat(ss) == IF ss = <<>> THEN <<>> ELSE Head(ss) \o Concat(Tail(ss))

Lines == {Concat(ts) : ts \in SeqsUpTo(Tokens, MaxTokens)}

DistinctSeqs(S, n) ==
  {q \in SeqsUpTo(S, n) : \A i, j \in 1..Len(q) : i # j => q[i] # q[j]}

EnrichInit ==
  /\ args = << "ps" >>
  /\ ctl_pc = "wait" /\ retErr = "none" /\ hostExit = Running
  /\ child_pc = "running" /\ childStatus = 0 /\ written = 1 /\ pipe = <<>>
  /\ wOpen = TRUE /\ cmdProcess = TRUE /\ childStarts = 1
  /\ relay_pc = "select" /\ relayNotified = FALSE /\ notifications = 0
  /\ signals = <<>> /\ delivered = <<>> /\ forwarded = <<>> /\ nilDropped = {}
  /\ eng_pc = "rewrite" /\ cur = [NoLine EXCEPT !.idx = 1] /\ stdout = <<>>
  /\ cons = 0 /\ vols = 0 /\ imgs = 0
  /\ listings = [k \in {"cons", "vols", "imgs"} |-> 1]
  /\ catWriter = "controller"
  /\ world = 0
  /\ listFail = "none"
  /\ ld_pc = "cons_id" /\ ld_kind = "enrich"
  /\ \E l \in Lines :
       \E cs \in DistinctSeqs({ConWeb, ConDotted}, MaxRecords) :
         \E vs \in DistinctSeqs({VolData}, MaxRecords) :
           \E is \in DistinctSeqs({ImgMyapp, ImgDocker}, MaxRecords) :
             ld_in = [line |-> l, cons |-> cs, vols |-> vs, imgs |-> is]
  /\ ld_out = [line |-> ld_in.line, i |-> 1, deco |-> NoDeco, printed |-> <<>>]

EnrichFrame ==
  UNCHANGED << args, ctlVars, hostExit, childVars, wOpen, relayVars, engVars,
               catVars, world, listFail, ld_kind, ld_in >>

\* EnrContainerId with the pattern "(" + c.ShortId + ")".
EnrContainerId_shortIdOnly ==
  /\ ld_pc = "cons_id" /\ ld_out.i <= Len(ld_in.cons)
  /\ LET c == ld_in.cons[ld_out.i]
     IN ld_out' = Pass(NameRegex(c.ShortId), ld_out, ContainersPrefix, c.ID)
  /\ ld_pc' = "cons_name"
  /\ EnrichFrame

\* cRegex := regexp.MustCompile("(" + c.ShortId + "[a-z0-9]*" + ")");
\* line = cRegex.ReplaceAllString(line, enhance("containers", "$1", c.ID))
EnrContainerId ==
  /\ ld_pc = "cons_id" /\ ld_out.i <= Len(ld_in.cons)
  /\ LET c == ld_in.cons[ld_out.i]
     IN ld_out' = Pass(IdRegex(c.ShortId), ld_out, ContainersPrefix, c.ID)
  /\ ld_pc' = "cons_name"
  /\ EnrichFrame

\* cRegex = regexp.MustCompile("(" + c.Names + ")");
\* line = cRegex.ReplaceAllString(line, enhance("containers", "$1", c.ID))
EnrContainerName ==
  /\ ld_pc = "cons_name"
  /\ LET c == ld_in.cons[ld_out.i]
     IN ld_out' = [Pass(NameRegex(c.Names), ld_out, ContainersPrefix, c.ID)
                     EXCEPT !.i = @ + 1]
  /\ ld_pc' = "cons_id"
  /\ EnrichFrame

\* for _, c := range cons: the range is exhausted
EnrContainersDone ==
  /\ ld_pc = "cons_id" /\ ld_out.i > Len(ld_in.cons)
  /\ ld_out' = [ld_out EXCEPT !.i = 1]
  /\ ld_pc' = "vols"
  /\ EnrichFrame

\* cRegex := regexp.MustCompile("(" + v.Name + ")");
\* line = cRegex.ReplaceAllString(line, enhance("volumes", "$1", v.Name))
EnrVolume ==
  /\ ld_pc = "vols" /\ ld_out.i <= Len(ld_in.vols)
  /\ LET v == ld_in.vols[ld_out.i]
     IN ld_out' = [Pass(NameRegex(v.Name), ld_out, VolumesPrefix, v.Name)
                     EXCEPT !.i = @ + 1]
  /\ ld_pc' = "vols"
  /\ EnrichFrame

\* for _, v := range vols: the range is exhausted
EnrVolumesDone ==
  /\ ld_pc = "vols" /\ ld_out.i > Len(ld_in.vols)
  /\ ld_out' = [ld_out EXCEPT !.i = 1]
  /\ ld_pc' = "imgs"
  /\ EnrichFrame

\* EnrImage that always uses the record's tag.
EnrImage_alwaysTag ==
  /\ ld_pc = "imgs" /\ ld_out.i <= Len(ld_in.imgs)
  /\ LET img == ld_in.imgs[ld_out.i]
         re == NameRegex(img.Respository)
     IN ld_out' =
          IF Contains(ld_out.line, img.Respository)
            THEN [Pass(re, ld_out, ImagesPrefix, img.ID \o << "-" >> \o img.Tag)
                    EXCEPT !.i = @ + 1]
            ELSE [ld_out EXCEPT !.i = @ + 1, !.deco = NoDeco]
  /\ ld_pc' = "imgs"
  /\ EnrichFrame

\* if strings.Contains(line, img.Respository) { cRegex := ...; if
\* strings.Contains(line, img.Tag) { ... img.ID+"-"+img.Tag } else { ...
\* img.ID+"-latest" } }
EnrImage ==
  /\ ld_pc = "imgs" /\ ld_out.i <= Len(ld_in.imgs)
  /\ LET img == ld_in.imgs[ld_out.i]
         re == NameRegex(img.Respository)
     IN ld_out' =
          IF Contains(ld_out.line, img.Respository)
            THEN IF Contains(ld_out.line, img.Tag)
                   THEN [Pass(re, ld_out, ImagesPrefix,
                              img.ID \o << "-" >> \o img.Tag)
                           EXCEPT !.i = @ + 1]
                   ELSE [Pass(re, ld_out, ImagesPrefix,
                              img.ID \o << "-" >> \o LatestTag)
                           EXCEPT !.i = @ + 1]
            ELSE [ld_out EXCEPT !.i = @ + 1, !.deco = NoDeco]
  /\ ld_pc' = "imgs"
  /\ EnrichFrame

\* for _, img := range imgs: the range is exhausted
EnrImagesDone ==
  /\ ld_pc = "imgs" /\ ld_out.i > Len(ld_in.imgs)
  /\ ld_out' = [ld_out EXCEPT !.i = 1]
  /\ ld_pc' = "print"
  /\ EnrichFrame

\* fmt.Fprintln(os.Stdout, line)
EnrPrint ==
  /\ ld_pc = "print"
  /\ ld_out' = [ld_out EXCEPT !.printed = ld_out.line \o << "\n" >>]
  /\ ld_pc' = "done"
  /\ EnrichFrame

EnrichNext ==
  \/ EnrContainerId \/ EnrContainerName \/ EnrContainersDone
  \/ EnrVolume \/ EnrVolumesDone
  \/ EnrImage \/ EnrImagesDone
  \/ EnrPrint

EnrichSpec == EnrichInit /\ [][EnrichNext]_vars

\* ---------------------------------------------------- executable lookup
\* What comDockerCli reads of the environment: the value of
\* DOCKER_COM_DOCKER_CLI ("" when unset), whether os.Executable and
\* filepath.EvalSymlinks fail, whether os.Stat finds com.docker.cli in the
\* directory of the current executable, whether it is on the search path.
OverridePath == "/override/com.docker.cli"
SiblingPath == "/exedir/com.docker.cli"
SearchPathHit == "/onpath/com.docker.cli"
SearchPath == "/onpath:/bin"

ResolveEnvs ==
  [override : {"", OverridePath}, exeErr : BOOLEAN, symErr : BOOLEAN,
   sibling : BOOLEAN, onPath : BOOLEAN]

\* resolvepath.LookPath(ComDockerCli): the executable found on the search
\* path, or an error.
LookPath(env) ==
  IF env.onPath THEN [path |-> SearchPathHit, err |-> "none"]
  ELSE [path |-> "", err |-> "executable file not found in $PATH"]

\* findBinary(ComDockerCli)
findBinary(env) ==
  IF env.exeErr THEN ""
  ELSE IF env.symErr THEN ""
  ELSE IF ~env.sibling THEN ""
  ELSE SiblingPath

Resolved(path) == [path |-> path, exit |-> Running, stderr |-> <<>>]

\* comDockerCli with findBinary asked before the environment variable.
comDockerCli_siblingFirst(env) ==
  IF findBinary(env) # "" THEN Resolved(findBinary(env))
  ELSE IF env.override # "" THEN Resolved(env.override)
  ELSE IF LookPath(env).err = "none" THEN Resolved(LookPath(env).path)
  ELSE [path |-> "", exit |-> ResolveFailExitCode,
        stderr |-> << LookPath(env).err, "Current PATH : " \o SearchPath >>]

\* comDockerCli(): the path returned, or the exit status and the lines
\* printed on the standard error when the process is ended.
comDockerCli(env) ==
  IF env.override # "" THEN Resolved(env.override)
  ELSE IF findBinary(env) # "" THEN Resolved(findBinary(env))
  ELSE IF LookPath(env).err = "none" THEN Resolved(LookPath(env).path)
  ELSE [path |-> "", exit |-> ResolveFailExitCode,
        stderr |-> << LookPath(env).err, "Current PATH : " \o SearchPath >>]

\* RunDocker from its first statement, in an environment that stays as it
\* is (the later calls of comDockerCli in the loaders return the same path).
ResolveInit ==
  /\ args = << "ps" >>
  /\ ctl_pc = "resolve" /\ retErr = "none" /\ hostExit = Running
  /\ child_pc = "none" /\ childStatus = 0 /\ written = 0 /\ pipe = <<>>
  /\ wOpen = FALSE /\ cmdProcess = FALSE /\ childStarts = 0
  /\ relay_pc = "none" /\ relayNotified = FALSE /\ notifications = 0
  /\ signals = <<>> /\ delivered = <<>> /\ forwarded = <<>> /\ nilDropped = {}
  /\ eng_pc = "none" /\ cur = NoLine /\ stdout = <<>>
  /\ cons = Empty /\ vols = Empty /\ imgs = Empty
  /\ listings = [k \in {"cons", "vols", "imgs"} |-> 0]
  /\ catWriter = "nobody"
  /\ world = 0
  /\ listFail = "none"
  /\ ld_pc = "call" /\ ld_kind = "comDockerCli"
  /\ ld_in \in ResolveEnvs
  /\ ld_out = <<>>

\* RunDocker: cmd := exec.Command(comDockerCli(), args...)
CtlResolve ==
  /\ Alive /\ ctl_pc = "resolve" /\ ld_pc = "call"
  /\ ld_out' = comDockerCli(ld_in)
  /\ ld_pc' = "done"
  /\ hostExit' = ld_out'.exit
  /\ ctl_pc' = IF ld_out'.exit = Running THEN "load_cons" ELSE "exited"
  /\ UNCHANGED << args, retErr, childVars, wOpen, relayVars, engVars, catVars,
                  world, listFail, ld_kind, ld_in >>

ResolveNext ==
  \/ CtlResolve
  \/ CtlLoadCons \/ CtlLoadVols \/ CtlLoadImgs
  \/ CtlStartRelay \/ CtlStartEngine \/ CtlStartChild

ResolveSpec == ResolveInit /\ [][ResolveNext]_vars

\* ----------------------------------------------------------------- claims
Kinds == {"cons", "vols", "imgs"}
FwdIds == {forwarded[i].id : i \in 1..Len(forwarded)}
Queued == {signals[i] : i \in 1..Len(signals)}
RewriteStates == {"rewrite", "print"}
RefreshStates == {"refresh_cons", "refresh_vols", "refresh_imgs"}
IsRun == Len(args) > 0 /\ args[1] = "run"

\* C1 -- draining: when RunDocker returns after the child wrote N lines and
\* exited (with any status), exactly N lines are on the real standard output.
C1_Draining ==
  (ctl_pc = "returned" /\ child_pc = "exited") => Len(stdout) = written

\* C2 -- shutdown ordering: the completion notification on childExit is
\* sent only after the child exited, the write end of the pipe was closed and
\* the engine's read loop signalled that it finished.
C2_ShutdownOrdering ==
  (notifications > 0 /\ child_pc = "exited") =>
     (~wOpen /\ eng_pc = "finished")

\* C3 -- outcome propagation: RunDocker returns nil exactly when the child
\* exited with status zero, and the host process terminates with the child's
\* own exit status, or with 1 when the child failed to start.
C3_OutcomePropagation ==
  /\ retErr = "nil" => (child_pc = "exited" /\ childStatus = 0)
  /\ retErr = "exit" => (child_pc = "exited" /\ childStatus # 0)
  /\ retErr = "start" => child_pc = "startfail"
  /\ (hostExit # Running /\ child_pc = "exited") => hostExit = childStatus
  /\ (hostExit # Running /\ child_pc = "startfail") => hostExit = StartFailExitCode

\* C4 -- lossless, ordered relay: every signal that is not the preemption
\* signal and was delivered to the host after the child was created and
\* before the completion notification is forwarded to the child (until then
\* it waits in the channel), and signals are forwarded in delivery order.
Eligible(i) ==
  /\ delivered[i].kind # "URG"
  /\ delivered[i].childExisted
  /\ delivered[i].beforeNote

C4_LosslessRelay ==
  /\ \A i \in 1..Len(delivered) :
        Eligible(i) => (i \in FwdIds \/ (i \in Queued /\ ~relayNotified))
  /\ \A i, j \in 1..Len(forwarded) : i < j => forwarded[i].id < forwarded[j].id

\* C5 -- no forwarding after completion: once the relay has received from
\* childExit, no step forwards a signal to the child.
C5_NoForwardAfterCompletion ==
  [][relayNotified => forwarded' = forwarded]_vars

\* C5 witness: the relay has been notified while a forwardable signal is
\* still queued in its channel.
C5_Witness ==
  /\ relayNotified /\ cmdProcess
  /\ signals # <<>> /\ delivered[Head(signals)].kind = "INT"

\* C6 -- forwarding guard: every signal forwarded was forwarded when the
\* child process existed and is not the preemption signal; a signal the relay
\* took from its channel while there was no child process (cmd.Process nil)
\* is dropped and never forwarded.
C6_ForwardingGuard ==
  /\ \A i \in 1..Len(forwarded) :
        /\ forwarded[i].child
        /\ forwarded[i].kind # "URG"
        /\ delivered[forwarded[i].id].kind = forwarded[i].kind
  /\ forwarded # <<>> => cmdProcess
  /\ nilDropped \cap FwdIds = {}
  /\ \A i, j \in 1..Len(forwarded) : i # j => forwarded[i].id # forwarded[j].id

\* C6 witness: a signal that the relay took before the child process
\* existed was dropped, and a later one was forwarded to the child.
C6_Witness ==
  /\ nilDropped # {}
  /\ forwarded # <<>>
  /\ \A i \in nilDropped : ~delivered[i].childExisted /\ delivered[i].kind = "INT"

\* C7 -- relay lifetime: the relay has returned exactly when it has received
\* the completion notification; at most one notification is sent, exactly one
\* once Exec is past its send, and only after RunDocker returned with the
\* child finished; whenever Exec is blocked in the send the relay is in its
\* select, ready to receive, so the send completes and Exec goes on.
C7_RelayLifetimeInv ==
  /\ (relay_pc = "returned") <=> relayNotified
  /\ relayNotified <=> (notifications = 1)
  /\ notifications <= 1
  /\ ctl_pc \in {"exec_exit", "exited"} => notifications = 1
  /\ notifications = 1 => (retErr # "none" /\ child_pc \in {"exited", "startfail"})
  /\ (Alive /\ ctl_pc = "returned") => relay_pc = "select"

C7_RelayLifetime ==
  /\ []C7_RelayLifetimeInv
  /\ (ctl_pc = "returned") ~> (ctl_pc = "exec_exit" \/ ~Alive)

\* C7 witness: RunDocker has returned, and the relay, which has handled two
\* signals while the child ran, is still in its loop with a signal queued.
C7_Witness ==
  /\ Alive /\ ctl_pc = "returned" /\ relay_pc = "select"
  /\ Len(delivered) = MaxSignals /\ Len(signals) = 1 /\ Len(forwarded) >= 1

\* C8 -- catalog snapshot: a catalog variable is assigned only by the
\* controller before the engine exists or by the engine in its refresh
\* steps, which lie between the reading of a line and its rewriting; while
\* the engine rewrites and prints a line the catalog does not change.
CatalogLoaded == listings' # listings \/ << cons, vols, imgs >>' # << cons, vols, imgs >>

C8_CatalogSnapshot ==
  [][ /\ eng_pc \in RewriteStates => ~CatalogLoaded
      /\ CatalogLoaded =>
           \/ eng_pc = "none" /\ catWriter' = "controller"
           \/ eng_pc \in RefreshStates /\ catWriter' = "engine"
    ]_vars

\* C8 witness: the engine is rewriting a line with a catalog it reloaded
\* itself after the inventory changed.
C8_Witness ==
  /\ eng_pc = "print" /\ catWriter = "engine"
  /\ cur.cons = world /\ cur.imgs = world /\ world > 0

\* C9 -- refresh policy: with "run" as first argument the three listings
\* have been made once at start and once more for every line, before the
\* line is rewritten, so that the catalog used for a line knows what existed
\* when the line was read; with any other arguments each listing is made
\* exactly once, before the child starts, and never by the engine.  The
\* child is started at most once, and exactly once when RunDocker gets there.
Processed == Len(stdout) + (IF eng_pc \in RewriteStates THEN 1 ELSE 0)

C9_RefreshPolicy ==
  /\ (IsRun /\ eng_pc \notin ({"none"} \cup RefreshStates)) =>
        \A k \in Kinds : listings[k] = 1 + Processed
  /\ (IsRun /\ eng_pc = "refresh_cons") =>
        \A k \in Kinds : listings[k] = 1 + Len(stdout)
  /\ (IsRun /\ eng_pc = "print") =>
        (cur.cons >= cur.world /\ cur.vols >= cur.world /\ cur.imgs >= cur.world)
  /\ (~IsRun /\ ctl_pc \notin {"load_cons", "load_vols", "load_imgs"}) =>
        /\ \A k \in Kinds : listings[k] = 1
        /\ catWriter = "controller"
        /\ << cons, vols, imgs >> = << 0, 0, 0 >>
  /\ childStarts > 0 => \A k \in Kinds : listings[k] >= 1
  /\ childStarts <= 1
  /\ child_pc # "none" <=> childStarts = 1
  /\ ctl_pc \in {"wait", "close_w", "wait_done", "returned", "exec_exit", "exited"}
        => childStarts = 1

\* C9 witness: a "run" invocation has printed one line with the catalog as
\* loaded at start and is printing the next with a catalog reloaded after
\* the child changed the inventory.
C9_Witness ==
  /\ IsRun /\ eng_pc = "print" /\ Len(stdout) = 1
  /\ cur.world = 1 /\ cur.cons = 1
  /\ listings = [k \in Kinds |-> 3]

\* C11 -- a failed listing degrades gracefully: when the listings of one
\* kind fail, the catalog of that kind is empty and the other two hold the
\* inventory; the host goes on and starts the child; the line being printed
\* was rewritten with no record of the failed kind; and what RunDocker
\* returns is decided by the child alone, as with successful listings.
Catalog(k) == IF k = "cons" THEN cons ELSE IF k = "vols" THEN vols ELSE imgs
UsedCatalog(k) ==
  IF k = "cons" THEN cur.cons ELSE IF k = "vols" THEN cur.vols ELSE cur.imgs

C11_GracefulDegradation ==
  \A k \in Kinds : listFail = k =>
    /\ listings[k] > 0 => Catalog(k) = Empty
    /\ \A j \in Kinds \ {k} : listings[j] > 0 => Catalog(j) = world
    /\ ctl_pc \notin {"load_cons", "load_vols", "load_imgs", "start_relay",
                      "start_engine", "start_child"} => childStarts = 1
    /\ ~Alive => (ctl_pc = "exited" \/ eng_pc = "panicked")
    /\ eng_pc = "print" =>
          /\ UsedCatalog(k) = Empty
          /\ \A j \in Kinds \ {k} : UsedCatalog(j) = world
    /\ retErr = "nil" <=>
          (ctl_pc \in {"returned", "exec_exit", "exited"}
             /\ child_pc = "exited" /\ childStatus = 0)
    /\ retErr = "exit" <=>
          (ctl_pc \in {"returned", "exec_exit", "exited"}
             /\ child_pc = "exited" /\ childStatus # 0)
    /\ retErr = "start" <=> child_pc = "startfail"

\* C11 witness: the listings of the volumes failed, at start and in the
\* refresh of a "run" invocation; a line was printed and RunDocker returned
\* nil after the child exited with status zero.
C11_Witness ==
  /\ listFail = "vols" /\ listings["vols"] = 2 /\ vols = Empty /\ cons = world
  /\ Len(stdout) = 1 /\ retErr = "nil" /\ childStatus = 0

\* C17 -- startup ordering: the child exists only after the three initial
\* listings were made and the relay and the engine goroutines were started;
\* the controller waits for the child, and the child writes, only while the
\* engine's read loop exists.
C17_StartupOrdering ==
  /\ child_pc # "none" =>
        /\ \A k \in Kinds : listings[k] >= 1 /\ Catalog(k) # Empty
        /\ relay_pc # "none"
        /\ eng_pc # "none"
  /\ ctl_pc = "wait" => eng_pc # "none"
  /\ (written > 0 \/ pipe # <<>>) => eng_pc # "none"
  /\ relay_pc # "none" => \A k \in Kinds : listings[k] >= 1
  /\ eng_pc # "none" => relay_pc # "none"

\* C17 witness: the child has written its first line into the pipe while
\* the engine sits in its read loop and the relay in its select.
C17_Witness ==
  /\ child_pc = "running" /\ written = 1 /\ pipe # <<>>
  /\ eng_pc = "scan" /\ relay_pc = "select" /\ ctl_pc = "wait"

\* C18 -- no deadlock between child and engine: there is no state in which
\* the engine has left its read loop while the child still runs with the
\* pipe full (its next write blocks for ever) and the controller is blocked
\* in cmd.Run() waiting for the child.
C18_NoDeadlock ==
  ~ ( /\ Alive
      /\ eng_pc \in {"send_done", "finished"}
      /\ child_pc = "running" /\ Len(pipe) = PipeCap
      /\ ctl_pc = "wait" )

\* C19 -- output order and multiplicity: the lines on the standard output
\* are the first lines the child wrote, each once and in the order written,
\* and the line the engine holds is the one right after them.
C19_OutputOrder ==
  /\ Len(stdout) <= written
  /\ \A i \in 1..Len(stdout) : stdout[i] = i
  /\ eng_pc \in (RewriteStates \cup RefreshStates) =>
        (cur.idx = Len(stdout) + 1 /\ cur.idx <= written - Len(pipe))

\* C19 witness: two lines are on the standard output, the first written
\* while the second was already in the pipe.
C19_Witness ==
  /\ Len(stdout) = 2 /\ written >= 2 /\ stdout[2] = 2

\* C20 -- empty argument list: with no argument the engine's test of the
\* first argument does not fail; the host lives until Exec exits with the
\* child's outcome, every line read is printed, and no listing is made
\* beyond the three made at start.
C20_EmptyArgsSafe ==
  Len(args) = 0 =>
    /\ eng_pc # "panicked"
    /\ ~Alive => ctl_pc = "exited"
    /\ \A k \in Kinds : listings[k] <= 1

\* C16 -- executable resolution order: the path given to exec.Command is
\* the override variable when it is not empty, else the file next to the
\* current executable when there is one, else what the search-path lookup
\* found; when none of the three gives a path the host has printed the
\* search path on the standard error and exited with a non-zero status, and
\* neither the child nor the relay nor the engine is ever started.
HasSibling(env) == ~env.exeErr /\ ~env.symErr /\ env.sibling

C16_ResolutionOrder ==
  (ld_kind = "comDockerCli" /\ ld_pc = "done") =>
    /\ ld_in.override # "" => (Alive /\ ld_out.path = ld_in.override)
    /\ (ld_in.override = "" /\ HasSibling(ld_in)) =>
          (Alive /\ ld_out.path = SiblingPath)
    /\ (ld_in.override = "" /\ ~HasSibling(ld_in) /\ ld_in.onPath) =>
          (Alive /\ ld_out.path = SearchPathHit)
    /\ (ld_in.override = "" /\ ~HasSibling(ld_in) /\ ~ld_in.onPath) =>
          /\ hostExit # Running /\ hostExit # 0
          /\ \E i \in 1..Len(ld_out.stderr) :
                ld_out.stderr[i] = "Current PATH : " \o SearchPath
          /\ child_pc = "none" /\ childStarts = 0
          /\ relay_pc = "none" /\ eng_pc = "none"

\* C16 witness: no override, com.docker.cli both next to the executable and
\* on the search path; the child was started with the file next to the
\* executable.
C16_Witness ==
  /\ ld_kind = "comDockerCli" /\ ld_pc = "done"
  /\ ld_in.override = "" /\ HasSibling(ld_in) /\ ld_in.onPath
  /\ ld_out.path = SiblingPath /\ child_pc = "running"

\* ------------------------------------------- claims on the rewriting passes
EnrichDone == ld_kind = "enrich" /\ ld_pc = "done"
HexChars ==
  { "0", "1", "2", "3", "4", "5", "6", "7", "8", "9", "a", "b", "c", "d", "e", "f" }

\* Start of the leftmost occurrence of sub in s, 0 when there is none.
IndexOf(s, sub) ==
  LET occ == {p \in 1..(Len(s) - Len(sub) + 1) : SubSeq(s, p, p + Len(sub) - 1) = sub}
  IN IF occ = {} THEN 0 ELSE Min(occ)

\* Length of the run of hexadecimal characters of s that starts at p.
HexRun(s, p) ==
  LET stops == {q \in p..Len(s) : s[q] \notin HexChars}
  IN IF stops = {} THEN Len(s) - p + 1 ELSE Min(stops) - p

\* C12 -- non-matching lines pass through unchanged: when the child's line
\* contains none of the catalog's container short identifiers, container
\* names, volume names and image repositories as a substring, what is
\* printed is the line itself followed by a newline.
C12_NonMatchingUnchanged ==
  EnrichDone =>
    ( ( /\ \A i \in 1..Len(ld_in.cons) :
             /\ ~Contains(ld_in.line, ld_in.cons[i].ShortId)
             /\ ~Contains(ld_in.line, ld_in.cons[i].Names)
        /\ \A i \in 1..Len(ld_in.vols) : ~Contains(ld_in.line, ld_in.vols[i].Name)
        /\ \A i \in 1..Len(ld_in.imgs) :
             ~Contains(ld_in.line, ld_in.imgs[i].Respository) )
      => ld_out.printed = ld_in.line \o << "\n" >> )

\* C13 as stated -- container identifier rewrite: when the child's line
\* contains the short identifier of a container record followed by zero or
\* more hexadecimal characters, the printed line contains the envelope
\* around exactly that substring, with kind containers and the record's
\* full identifier, intact after all the later passes.
C13_EnvelopeInPrintedLine ==
  EnrichDone =>
    \A i \in 1..Len(ld_in.cons) :
      LET c == ld_in.cons[i]
          p == IndexOf(ld_in.line, c.ShortId)
          n == Len(c.ShortId) + HexRun(ld_in.line, p + Len(c.ShortId))
      IN p > 0 =>
           Contains(ld_out.printed,
                    enhance(ContainersPrefix,
                            SubSeq(ld_in.line, p, p + n - 1), c.ID))

\* C13, amended -- when the line, as it is when a container record's
\* identifier pass starts, contains the record's short identifier, then
\* right after that pass the line contains the envelope around the short
\* identifier together with the whole run of lowercase letters and digits
\* that follows it, with kind containers and the record's full identifier;
\* later passes may rewrite text inside that envelope.
C13_IdPassWraps ==
  [][ (ld_kind = "enrich" /\ ld_pc = "cons_id" /\ ld_pc' = "cons_name") =>
        LET c == ld_in.cons[ld_out.i]
            p == IndexOf(ld_out.line, c.ShortId)
            n == Len(c.ShortId) + AlnumRun(ld_out.line, p + Len(c.ShortId))
        IN p > 0 =>
             Contains(ld_out'.line,
                      enhance(ContainersPrefix,
                              SubSeq(ld_out.line, p, p + n - 1), c.ID))
    ]_vars

\* C13 witness: the identifier pass has just wrapped a short identifier
\* and the hexadecimal character after it.
C13_Witness ==
  /\ ld_kind = "enrich" /\ ld_pc = "cons_name"
  /\ ld_in.line = ConWeb.ShortId \o << "1" >>
  /\ ld_out.line = enhance(ContainersPrefix, ConWeb.ShortId \o << "1" >>, ConWeb.ID)

\* C14 as stated -- image tag selection: when the child's line contains an
\* image record's repository, the printed line has the repository decorated
\* with kind images and the identifier <full-id>-<tag> if the child's line
\* contains the tag, <full-id>-latest if it does not.
C14_TagChosenFromChildLine ==
  EnrichDone =>
    \A i \in 1..Len(ld_in.imgs) :
      LET img == ld_in.imgs[i]
      IN Contains(ld_in.line, img.Respository) =>
           Contains(ld_out.printed,
                    enhance(ImagesPrefix, img.Respository,
                            img.ID \o << "-" >> \o
                              (IF Contains(ld_in.line, img.Tag)
                                 THEN img.Tag ELSE LatestTag)))

\* C14, amended -- when the line, as rewritten by the passes before an
\* image record's pass, contains the record's repository, that pass
\* decorates the repository with kind images and the identifier
\* <full-id>-<tag> if the line as rewritten so far contains the tag, and
\* <full-id>-latest if it does not; otherwise the pass leaves the line as
\* it is.
C14_TagChosenFromRewrittenLine ==
  [][ (ld_kind = "enrich" /\ ld_pc = "imgs" /\ ld_pc' = "imgs") =>
        LET img == ld_in.imgs[ld_out.i]
            re == NameRegex(img.Respository)
            q == NextMatch(re, ld_out.line, 1)
        IN IF Contains(ld_out.line, img.Respository)
             THEN /\ q > 0
                  /\ Contains(ld_out'.line,
                        enhance(ImagesPrefix,
                                SubSeq(ld_out.line, q, q + MatchLen(re, ld_out.line, q) - 1),
                                img.ID \o << "-" >> \o
                                  (IF Contains(ld_out.line, img.Tag)
                                     THEN img.Tag ELSE LatestTag)))
             ELSE ld_out'.line = ld_out.line
    ]_vars

\* C14 witness: the child's line holds a container name and the repository
\* "docker" but not the tag "8"; the image pass found the tag in the text
\* inserted by the container pass and used <full-id>-8.
C14_Witness ==
  /\ ld_kind = "enrich" /\ ld_pc = "imgs" /\ ld_out.i = 2
  /\ ld_in.imgs = << ImgDocker >> /\ ld_in.cons = << ConWeb >>
  /\ ld_in.line = ImgDocker.Respository \o ConWeb.Names
  /\ ld_out.deco.id = ImgDocker.ID \o << "-" >> \o ImgDocker.Tag

\* The parts of a decoration: the URI between the opening "ESC ] 8 ; ;" and
\* the first BEL, what follows "://" in it, and the pieces of a text between
\* occurrences of a separator character.
UriOf(text) == SubSeq(text, 6, IndexOf(text, BEL) - 1)
AfterScheme(uri) == SubSeq(uri, IndexOf(uri, << ":", "/", "/" >>) + 3, Len(uri))
SchemeOf(uri) == SubSeq(uri, 1, IndexOf(uri, << ":", "/", "/" >>) - 1)

RECURSIVE Split(_, _)
Split(t, sep) ==
  IF IndexOf(t, << sep >>) = 0 THEN << t >>
  ELSE << SubSeq(t, 1, IndexOf(t, << sep >>) - 1) >>
         \o Split(SubSeq(t, IndexOf(t, << sep >>) + 1, Len(t)), sep)

IsEnvelope(d) ==
  d.text = OSC \o << "8", ";", ";" >> \o UriOf(d.text) \o BEL \o d.str
             \o OSC \o << "8", ";", ";" >> \o BEL

\* C15 as stated -- decoration format: a decoration is the hyperlink
\* envelope around the matched text with a URI <scheme>://dashboard/<kind>/<id>:
\* after the scheme the path segments are dashboard, the kind, the identifier.
C15_IdIsPathSegment ==
  (ld_kind = "enrich" /\ ld_out.deco # NoDeco) =>
    /\ IsEnvelope(ld_out.deco)
    /\ Split(AfterScheme(UriOf(ld_out.deco.text)), "/")
         = << << "d", "a", "s", "h", "b", "o", "a", "r", "d" >>, ld_out.deco.prefix, ld_out.deco.id >>

\* C15, amended -- decoration format: a decoration is the hyperlink
\* envelope around the matched text with the URI
\* docker-desktop://dashboard/<kind>?id=<id>: the kind is the last path
\* segment and the identifier is the value of the query parameter id.
C15_IdIsQueryParameter ==
  (ld_kind = "enrich" /\ ld_out.deco # NoDeco) =>
    LET uri == UriOf(ld_out.deco.text)
        parts == Split(AfterScheme(uri), "?")
    IN /\ IsEnvelope(ld_out.deco)
       /\ SchemeOf(uri) = << "d", "o", "c", "k", "e", "r", "-", "d", "e", "s", "k", "t", "o", "p" >>
       /\ Len(parts) = 2
       /\ Split(parts[1], "/") = << << "d", "a", "s", "h", "b", "o", "a", "r", "d" >>, ld_out.deco.prefix >>
       /\ parts[2] = << "i", "d", "=" >> \o ld_out.deco.id

\* C15 witness: the volume pass has decorated a volume name.
C15_Witness ==
  /\ ld_kind = "enrich" /\ ld_pc = "vols" /\ ld_out.i = 2
  /\ ld_out.deco.prefix = VolumesPrefix /\ ld_out.deco.str = VolData.Name
  /\ ld_out.deco.id = VolData.Name

====
